---- MODULE Spec2Model ----
(***************************************************************************)
(* Drug of the Day: the DrugOfTheDay component (quiz state machine, 09:00  *)
(* unlock gate, streak tracker) over window.localStorage and the wall      *)
(* clock.                                                                  *)
(*                                                                         *)
(* Time is counted in whole hours since 00:00 UTC of day 0, the day of     *)
(* START_DATE_ISO.  The local zone tz is an offset in hours east of UTC    *)
(* and at most one daylight-saving shift of that offset.  Every threshold  *)
(* of the program (09:00 local, 24 h) is a whole hour, so comparisons at   *)
(* this resolution are exact.                                              *)
(***************************************************************************)
EXTENDS Integers, Sequences, FiniteSets, TLC

VARIABLES
    now,            \* Date.now(), in hours (UTC)
    tz,             \* local zone of the device
    store,          \* window.localStorage: dotd_next_at, dotd_streak, dotd_last
    len,            \* drugs.length: the number of items of the content list
    drug,           \* useState(() => pickDrugForToday()): the item picked at mount
    idx,            \* useState(0): index of the current anchor
    answers,        \* useState: anchor id -> array of selected option ids
    showResults,    \* useState(false)
    showCompleted,  \* useState(false)
    timerOn,        \* useState(true)
    secondsLeftBy,  \* useState(initialTimes): anchor id -> remaining seconds
    nextAt,         \* useState(() => localStorage dotd_next_at)
    streak,         \* useState(0), then the mount effect
    ready,          \* `ready` of the Completed screen as last rendered
    timeout,        \* pending setTimeout of the timer effect: anchor id or "none"
    interval,       \* pending setInterval of the countdown effect
    nTicks,         \* timer decrements since the mount (exploration budget)
    nToggles        \* option clicks since the answers were last empty (exploration budget)

vars == <<now, tz, store, len, drug, idx, answers, showResults, showCompleted, timerOn,
          secondsLeftBy, nextAt, streak, ready, timeout, interval, nTicks, nToggles>>

ui == <<idx, answers, showResults, showCompleted, timerOn, secondsLeftBy,
        nextAt, streak, ready, timeout, interval>>

----------------------------------------------------------------------------
(* Bounds of the exploration *)

StartNow == 17      \* clock value at the first mount
MaxNow == 49        \* the clock stops advancing here
ClockStep == 8      \* hours that pass between two observations of the clock
MaxBase == 71       \* next9amTs is applied to every base in 0..MaxBase
MaxStreak == 3      \* an interrupted effect does not raise the stored streak past this
MaxTicks == 1       \* at most this many timer decrements per mount
MinBase == 48       \* pickDrugForToday is applied to every hour from this many before day 0 ...
MaxPick == 860      \* ... up to this hour
MaxLen == 4         \* the content list has 0..MaxLen items where pickDrugForToday is explored
MaxLeft == 1        \* seconds left on the anchor that has run down, where the timers are explored
MaxClicks == 2      \* option clicks per attempt when only the quiz is explored
MaxToggles == 1     \* at most this many option clicks per attempt

\* a zone that keeps the offset o, in hours east of UTC, all year
Fixed(o) == [off |-> o, at |-> 0, shift |-> 0]

\* zones of the device
TimeZones == {Fixed(0), Fixed(13)}

\* zones next9amTs is applied under
AllZones == {Fixed(0 - 11), Fixed(0 - 5), Fixed(0), Fixed(5), Fixed(13)}

\* Australia/Sydney: UTC+10 until 2025-10-05 02:00 local (2025-10-04T16:00Z,
\* 33 days after START_DATE_ISO), UTC+11 from then on
Sydney == [off |-> 10, at |-> 33 * 24 + 16, shift |-> 1]

\* zones pickDrugForToday is applied under
PickZones == AllZones \cup {Sydney}

----------------------------------------------------------------------------
(* Program constants *)

HoursPerDay == 24       \* 24 * 3600 * 1000 ms
StartDay == 0           \* START_DATE_ISO, the day the count of days starts from
NineAM == 9             \* new Date(y, m, d, 9, 0, 0, 0)
FullSeconds == 35       \* initialTimes

----------------------------------------------------------------------------
(* JavaScript values: numbers (with NaN), null, and localStorage strings *)

Num(n) == [t |-> "num", v |-> n]
NaN == [t |-> "nan", v |-> 0]
Null == [t |-> "null", v |-> 0]

Absent == [t |-> "absent", v |-> 0]         \* getItem returns null
NumStr(n) == [t |-> "numstr", v |-> n]      \* decimal digits of the integer n
DateStr(d) == [t |-> "date", v |-> d]       \* "YYYY-MM-DD" of UTC day d
NaNStr == [t |-> "text", v |-> 0]           \* the string "NaN"

\* String(x) for a number x
String(x) == IF x.t = "num" THEN NumStr(x.v) ELSE NaNStr

\* Number(s) for a string s
Number(s) == IF s.t = "numstr" THEN Num(s.v) ELSE NaN

\* truthiness of a number-or-null: 0, NaN and null are falsy
TruthyNum(x) == x.t = "num" /\ x.v # 0

\* truthiness of a getItem result: null is falsy (no stored string here is empty)
TruthyStr(s) == s.t # "absent"

\* x + 1 on a number
Inc(x) == IF x.t = "num" THEN Num(x.v + 1) ELSE NaN

----------------------------------------------------------------------------
(* Dates *)

\* the offset of zone z in effect at ts: off until the instant `at`, off + shift
\* from then on
Off(z, ts) == IF z.shift # 0 /\ ts >= z.at THEN z.off + z.shift ELSE z.off

\* new Date(ts).getFullYear()/getMonth()/getDate(): the local calendar day of ts
LocalDay(ts, z) == (ts + Off(z, ts)) \div HoursPerDay

\* new Date(y, m, d, h, 0, 0, 0).getTime(): local wall time to timestamp
LocalTs(day, h, z) ==
    LET wall == day * HoursPerDay + h
        std == wall - z.off
    IN  IF Off(z, std) = z.off THEN std ELSE wall - Off(z, std)

\* new Date(ts).toISOString().slice(0, 10): the UTC calendar day of ts
IsoDate(ts) == DateStr(ts \div HoursPerDay)

\* variant: the candidate is always moved to the next day
next9amTs_Tomorrow(base, z) ==
    LocalTs(LocalDay(base, z) + 1, NineAM, z)

\* variant: the comparison is strict
next9amTs_GT(base, z) ==
    LET candidate == LocalTs(LocalDay(base, z), NineAM, z)
    IN  IF base > candidate
        THEN LocalTs(LocalDay(base, z) + 1, NineAM, z)
        ELSE candidate

\* candidate.setDate(candidate.getDate() + 1) is 09:00 of the next local day
next9amTs(base, z) ==
    LET candidate == LocalTs(LocalDay(base, z), NineAM, z)
    IN  IF base >= candidate
        THEN LocalTs(LocalDay(base, z) + 1, NineAM, z)
        ELSE candidate

----------------------------------------------------------------------------
(* The drug of the day *)

\* list[i] of the content list, and list[0] of an empty list
Item(i) == [t |-> "item", v |-> i]
Undefined == [t |-> "undefined", v |-> 0]

\* a % b of JavaScript for b > 0: the remainder takes the sign of a
JsRem(a, b) == IF a >= 0 THEN a % b ELSE 0 - ((0 - a) % b)

\* variant: an instant before 09:00 is not moved to the previous boundary
days_NoRollback(t, z) ==
    LET today9 == LocalTs(LocalDay(t, z), NineAM, z)
        start9 == LocalTs(StartDay, NineAM, z)
    IN  (today9 - start9) \div HoursPerDay

\* variant: 09:00 sharp still counts as the previous day
days_After9(t, z) ==
    LET today9 == LocalTs(LocalDay(t, z), NineAM, z)
        boundaryNow == IF t > today9 THEN today9 ELSE today9 - HoursPerDay
        start9 == LocalTs(StartDay, NineAM, z)
    IN  (boundaryNow - start9) \div HoursPerDay

\* whole days from the 09:00 of START_DATE_ISO to the last 09:00 boundary
days(t, z) ==
    LET today9 == LocalTs(LocalDay(t, z), NineAM, z)
        boundaryNow == IF t >= today9 THEN today9 ELSE today9 - HoursPerDay
        start9 == LocalTs(StartDay, NineAM, z)
    IN  (boundaryNow - start9) \div HoursPerDay

\* variant: the remainder is used as it comes
pickDrugForToday_NoWrap(t, z, n) ==
    IF n > 0 THEN Item(JsRem(days(t, z), n)) ELSE Undefined

\* n is drugs.length; with no item the function returns list[0]
pickDrugForToday(t, z, n) ==
    LET i == IF n > 0 THEN JsRem(JsRem(days(t, z), n) + n, n) ELSE 0
    IN  IF n > 0 THEN Item(i) ELSE Undefined

----------------------------------------------------------------------------
(* Content: the five anchors of a drug *)

Anchors == <<"class", "indications", "moa", "adrs", "interactions">>
AnchorIds == {Anchors[i] : i \in 1..Len(Anchors)}
total == Len(Anchors)

AnchorType(a) == IF a \in {"class", "moa"} THEN "single" ELSE "multi"

Options(a) ==
    CASE a = "class" -> <<"ace", "arb", "ccb", "bb">>
      [] a = "indications" -> <<"htn", "hfrEF", "postmi", "ckd", "angina", "migraine">>
      [] a = "moa" -> <<"moa_true", "moa_arb", "moa_ccb", "moa_renin">>
      [] a = "adrs" -> <<"cough", "angio", "k", "hypo", "renal", "gingiva", "brady">>
      [] a = "interactions" -> <<"kplus", "nsaids", "lithium", "dualraas", "gfj", "ppi">>

\* the options the exploration clicks: the first and the last option of the
\* first single-mode and of the first multi-mode anchor
Clickable(a) ==
    IF a \in {"class", "indications"}
    THEN {Options(a)[1], Options(a)[Len(Options(a))]}
    ELSE {}

curr == Anchors[idx + 1]

EmptyAnswers == [a \in AnchorIds |-> <<>>]
initialTimes == [a \in AnchorIds |-> FullSeconds]

----------------------------------------------------------------------------
(* What a render and its effects derive from the state *)

Max(a, b) == IF a >= b THEN a ELSE b

\* which screen the component returns
Screen ==
    IF showCompleted THEN "completed"
    ELSE IF showResults THEN "results"
    ELSE "quiz"

\* variant: the effect does not look at the screen
TimerEffect_AnyScreen(on, res, comp, secs, i) ==
    IF ~on THEN "none"
    ELSE IF secs[Anchors[i + 1]] <= 0 THEN "none"
    ELSE Anchors[i + 1]

\* variant: the effect does not look at the seconds left
TimerEffect_AtZero(on, res, comp, secs, i) ==
    IF ~on \/ res \/ comp THEN "none"
    ELSE Anchors[i + 1]

\* the timer effect: the timeout it leaves pending after its cleanup and re-run
TimerEffect(on, res, comp, secs, i) ==
    IF ~on \/ res \/ comp THEN "none"
    ELSE IF secs[Anchors[i + 1]] <= 0 THEN "none"
    ELSE Anchors[i + 1]

\* variant: the effect does not look at the screen
CountdownEffect_AnyScreen(comp, nx) == TruthyNum(nx)

\* the countdown effect: whether it leaves an interval pending
CountdownEffect(comp, nx) == comp /\ TruthyNum(nx)

currentLeft(nx, t) == IF TruthyNum(nx) THEN Max(0, nx.v - t) ELSE 0

\* `ready` exists on the Completed screen only
Ready(comp, nx, t) == comp /\ currentLeft(nx, t) <= 0

\* every commit re-renders and re-runs the effects whose inputs changed
Effects ==
    /\ timeout' = TimerEffect(timerOn', showResults', showCompleted', secondsLeftBy', idx')
    /\ interval' = CountdownEffect(showCompleted', nextAt')
    /\ ready' = Ready(showCompleted', nextAt', now')

----------------------------------------------------------------------------
(* Results object *)

\* a.correct
Correct(a) ==
    CASE a = "class" -> <<"ace">>
      [] a = "indications" -> <<"htn", "hfrEF", "postmi", "ckd">>
      [] a = "moa" -> <<"moa_true">>
      [] a = "adrs" -> <<"cough", "angio", "k", "hypo", "renal">>
      [] a = "interactions" -> <<"kplus", "nsaids", "lithium", "dualraas">>

\* new Set(arr)
NewSet(arr) == {arr[i] : i \in 1..Len(arr)}

\* variant: the sizes are not compared
setsEqual_NoSize(a, b) == \A v \in a : v \in b

setsEqual(a, b) ==
    IF Cardinality(a) # Cardinality(b) THEN FALSE
    ELSE \A v \in a : v \in b

\* one entry of perAnchor
perAnchor(ans, a) ==
    LET sel == NewSet(ans[a])
        cor == NewSet(Correct(a))
    IN  [correct |-> setsEqual(sel, cor),
         missed |-> SelectSeq(Options(a), LAMBDA o : o \in cor /\ o \notin sel),
         wrong |-> SelectSeq(Options(a), LAMBDA o : o \in sel /\ o \notin cor),
         selected |-> SelectSeq(Options(a), LAMBDA o : o \in sel),
         correctOpts |-> SelectSeq(Options(a), LAMBDA o : o \in cor)]

\* the memo: null while the Results screen is not shown
results ==
    IF ~showResults THEN Null
    ELSE [a \in AnchorIds |-> perAnchor(answers, a)]

----------------------------------------------------------------------------
(* Streak effect on results *)

StoredStreak(st) ==
    Number(IF TruthyStr(st.dotd_streak) THEN st.dotd_streak ELSE NumStr(0))

\* variant: the guard on lastDone !== today is dropped
ResultsEffect_NoDayGuard(st, t) ==
    LET today == IsoDate(t)
        lastDone == st.dotd_last
        yesterday == IsoDate(t - HoursPerDay)
        sv == IF lastDone = yesterday \/ lastDone = today
              THEN Inc(StoredStreak(st)) ELSE Num(1)
    IN  [store |-> [st EXCEPT !.dotd_streak = String(sv), !.dotd_last = today],
         streak |-> sv]

\* variant: a gap does not reset the streak
ResultsEffect_NoReset(st, t) ==
    LET today == IsoDate(t)
        lastDone == st.dotd_last
        sv == Inc(StoredStreak(st))
    IN  IF lastDone # today
        THEN [store |-> [st EXCEPT !.dotd_streak = String(sv), !.dotd_last = today],
              streak |-> sv]
        ELSE [store |-> st, streak |-> StoredStreak(st)]

\* the effect on [results], run to its end: localStorage and setStreak's argument
ResultsEffect(st, t) ==
    LET today == IsoDate(t)
        lastDone == st.dotd_last
        streakVal == StoredStreak(st)
        yesterday == IsoDate(t - HoursPerDay)
        sv == IF lastDone = yesterday THEN Inc(streakVal) ELSE Num(1)
    IN  IF lastDone # today
        THEN [store |-> [st EXCEPT !.dotd_streak = String(sv), !.dotd_last = today],
              streak |-> sv]
        ELSE [store |-> st, streak |-> streakVal]

\* localStorage when the effect stops after setItem("dotd_streak") and before
\* setItem("dotd_last")
StoreBetweenWrites(st, t) ==
    [ResultsEffect(st, t).store EXCEPT !.dotd_last = st.dotd_last]

----------------------------------------------------------------------------
(* Mount *)

\* the hook state after the first render and the mount effects
Mounted(st) ==
    [idx |-> 0,
     answers |-> EmptyAnswers,
     showResults |-> FALSE,
     showCompleted |-> FALSE,
     timerOn |-> TRUE,
     secondsLeftBy |-> initialTimes,
     nextAt |-> IF TruthyStr(st.dotd_next_at) THEN Number(st.dotd_next_at) ELSE Null,
     streak |-> StoredStreak(st)]

EmptyStore == [dotd_next_at |-> Absent, dotd_streak |-> Absent, dotd_last |-> Absent]

InitUi(st, t) ==
    LET m == Mounted(st)
    IN  /\ idx = m.idx
        /\ answers = m.answers
        /\ showResults = m.showResults
        /\ showCompleted = m.showCompleted
        /\ timerOn = m.timerOn
        /\ secondsLeftBy = m.secondsLeftBy
        /\ nextAt = m.nextAt
        /\ streak = m.streak
        /\ timeout = TimerEffect(m.timerOn, m.showResults, m.showCompleted, m.secondsLeftBy, m.idx)
        /\ interval = CountdownEffect(m.showCompleted, m.nextAt)
        /\ ready = Ready(m.showCompleted, m.nextAt, t)

Init ==
    /\ now = StartNow
    /\ tz \in TimeZones
    /\ store = EmptyStore
    /\ len = 1             \* the content list holds the one drug of the quiz
    /\ drug = pickDrugForToday(now, tz, len)
    /\ InitUi(store, now)
    /\ nTicks = 0
    /\ nToggles = 0

\* window.location.reload() ("New drug"), or the page closed and opened again
Reload ==
    LET m == Mounted(store)
    IN  /\ idx' = m.idx
        /\ answers' = m.answers
        /\ showResults' = m.showResults
        /\ showCompleted' = m.showCompleted
        /\ timerOn' = m.timerOn
        /\ secondsLeftBy' = m.secondsLeftBy
        /\ nextAt' = m.nextAt
        /\ streak' = m.streak
        /\ nTicks' = 0
        /\ nToggles' = 0
        /\ drug' = pickDrugForToday(now, tz, len)
        /\ UNCHANGED <<now, tz, store, len>>
        /\ Effects

----------------------------------------------------------------------------
(* Quiz screen *)

\* the array after Array.from(prev) with id deleted
Without(arr, id) == SelectSeq(arr, LAMBDA x : x # id)

InSeq(arr, id) == \E i \in 1..Len(arr) : arr[i] = id

\* variant: a single-choice anchor toggles like a multi-choice one
Toggled_SingleAdds(ans, a, id) ==
    IF InSeq(ans[a], id)
    THEN [ans EXCEPT ![a] = Without(@, id)]
    ELSE [ans EXCEPT ![a] = Append(@, id)]

\* variant: a multi-choice anchor only ever adds
Toggled_MultiKeeps(ans, a, id) ==
    IF AnchorType(a) = "single"
    THEN [ans EXCEPT ![a] = <<id>>]
    ELSE IF InSeq(ans[a], id)
         THEN ans
         ELSE [ans EXCEPT ![a] = Append(@, id)]

\* the answers toggle(id) sets while anchor a is the current one
Toggled(ans, a, id) ==
    IF AnchorType(a) = "single"
    THEN [ans EXCEPT ![a] = <<id>>]
    ELSE IF InSeq(ans[a], id)
         THEN [ans EXCEPT ![a] = Without(@, id)]
         ELSE [ans EXCEPT ![a] = Append(@, id)]

\* onClick of an option
toggle(id) ==
    /\ Screen = "quiz"
    /\ nToggles' = nToggles + 1
    /\ answers' = Toggled(answers, curr, id)
    /\ UNCHANGED <<now, tz, len, drug, store, idx, showResults, showCompleted, timerOn,
                   secondsLeftBy, nextAt, streak, nTicks>>
    /\ Effects

\* a click on one of the options the exploration clicks, while clicks are left
clickOption(id) ==
    /\ nToggles < MaxToggles
    /\ toggle(id)

\* the options clicked when only the quiz is explored: the first and the last
\* option of every anchor
QuizClickable(a) == {Options(a)[1], Options(a)[Len(Options(a))]}

clickQuizOption(id) ==
    /\ nToggles < MaxClicks
    /\ toggle(id)

\* variant: the answers of every anchor are cleared
clearSelection_All ==
    /\ Screen = "quiz"
    /\ answers' = EmptyAnswers
    /\ UNCHANGED <<now, tz, len, drug, store, idx, showResults, showCompleted, timerOn,
                   secondsLeftBy, nextAt, streak, nTicks, nToggles>>
    /\ Effects

\* onClick of "Clear selection"
clearSelection ==
    /\ Screen = "quiz"
    /\ answers' = [answers EXCEPT ![curr] = <<>>]
    /\ UNCHANGED <<now, tz, len, drug, store, idx, showResults, showCompleted, timerOn,
                   secondsLeftBy, nextAt, streak, nTicks, nToggles>>
    /\ Effects

\* variant: Finish also goes back to the first anchor
goNext_FinishRewinds ==
    /\ Screen = "quiz"
    /\ IF idx + 1 < total
       THEN /\ idx' = idx + 1
            /\ UNCHANGED <<showResults, store, streak>>
       ELSE /\ showResults' = TRUE
            /\ store' = ResultsEffect(store, now).store
            /\ streak' = ResultsEffect(store, now).streak
            /\ idx' = 0
    /\ UNCHANGED <<now, tz, len, drug, answers, showCompleted, timerOn, secondsLeftBy,
                   nextAt, nTicks, nToggles>>
    /\ Effects

\* onClick of "Next" / "Finish"; Finish makes `results` non-null, which runs the
\* streak effect
goNext ==
    /\ Screen = "quiz"
    /\ IF idx + 1 < total
       THEN /\ idx' = idx + 1
            /\ UNCHANGED <<showResults, store, streak>>
       ELSE /\ showResults' = TRUE
            /\ store' = ResultsEffect(store, now).store
            /\ streak' = ResultsEffect(store, now).streak
            /\ UNCHANGED idx
    /\ UNCHANGED <<now, tz, len, drug, answers, showCompleted, timerOn, secondsLeftBy,
                   nextAt, nTicks, nToggles>>
    /\ Effects

\* variant: going back gives the anchor its full time again
goBack_RefillsTimer ==
    /\ Screen = "quiz"
    /\ idx > 0
    /\ idx' = idx - 1
    /\ secondsLeftBy' = [secondsLeftBy EXCEPT ![Anchors[idx]] = FullSeconds]
    /\ UNCHANGED <<now, tz, len, drug, store, answers, showResults, showCompleted, timerOn,
                   nextAt, streak, nTicks, nToggles>>
    /\ Effects

\* onClick of "Back", rendered when idx > 0
goBack ==
    /\ Screen = "quiz"
    /\ idx > 0
    /\ idx' = idx - 1
    /\ UNCHANGED <<now, tz, len, drug, store, answers, showResults, showCompleted, timerOn,
                   secondsLeftBy, nextAt, streak, nTicks, nToggles>>
    /\ Effects

\* onChange of the Timer checkbox
setTimerOn ==
    /\ Screen = "quiz"
    /\ timerOn' = ~timerOn
    /\ UNCHANGED <<now, tz, len, drug, store, idx, answers, showResults, showCompleted,
                   secondsLeftBy, nextAt, streak, nTicks, nToggles>>
    /\ Effects

\* the pending timeout of the timer effect fires
timerFires ==
    /\ timeout # "none"
    /\ nTicks < MaxTicks
    /\ nTicks' = nTicks + 1
    /\ secondsLeftBy' = [secondsLeftBy EXCEPT ![timeout] = Max(0, @ - 1)]
    /\ UNCHANGED <<now, tz, len, drug, store, idx, answers, showResults, showCompleted,
                   timerOn, nextAt, streak, nToggles>>
    /\ Effects

----------------------------------------------------------------------------
(* Results screen *)

\* onClick of "Try again"
tryAgain ==
    /\ Screen = "results"
    /\ showResults' = FALSE
    /\ idx' = 0
    /\ answers' = EmptyAnswers
    /\ nToggles' = 0
    /\ UNCHANGED <<now, tz, len, drug, store, showCompleted, timerOn, secondsLeftBy,
                   nextAt, streak, nTicks>>
    /\ Effects

\* variant: the target is not written to localStorage
markReviewComplete_NotPersisted ==
    LET target == Num(next9amTs(now, tz))
    IN  /\ Screen = "results"
        /\ nextAt' = target
        /\ showCompleted' = TRUE
        /\ UNCHANGED <<now, tz, len, drug, store, idx, answers, showResults, timerOn,
                       secondsLeftBy, streak, nTicks, nToggles>>
        /\ Effects

\* onClick of "Mark review complete"
markReviewComplete ==
    LET target == Num(next9amTs(now, tz))
    IN  /\ Screen = "results"
        /\ store' = [store EXCEPT !.dotd_next_at = String(target)]
        /\ nextAt' = target
        /\ showCompleted' = TRUE
        /\ UNCHANGED <<now, tz, len, drug, idx, answers, showResults, timerOn,
                       secondsLeftBy, streak, nTicks, nToggles>>
        /\ Effects

----------------------------------------------------------------------------
(* Completed screen *)

\* variant: the handler of the other button's removeItem is run here too
backToHome_RemovesKey ==
    /\ Screen = "completed"
    /\ store' = [store EXCEPT !.dotd_next_at = Absent]
    /\ showCompleted' = FALSE
    /\ showResults' = FALSE
    /\ idx' = 0
    /\ UNCHANGED <<now, tz, len, drug, answers, timerOn, secondsLeftBy, nextAt,
                   streak, nTicks, nToggles>>
    /\ Effects

\* onClick of "Back to home"
backToHome ==
    /\ Screen = "completed"
    /\ showCompleted' = FALSE
    /\ showResults' = FALSE
    /\ idx' = 0
    /\ UNCHANGED <<now, tz, len, drug, store, answers, timerOn, secondsLeftBy, nextAt,
                   streak, nTicks, nToggles>>
    /\ Effects

\* variant: the button is never disabled
startNextDose_NotDisabled ==
    /\ Screen = "completed"
    /\ store' = [store EXCEPT !.dotd_next_at = Absent]
    /\ nextAt' = Null
    /\ showCompleted' = FALSE
    /\ idx' = 0
    /\ UNCHANGED <<now, tz, len, drug, answers, showResults, timerOn, secondsLeftBy,
                   streak, nTicks, nToggles>>
    /\ Effects

\* onClick of "Start next dose", disabled unless ready
startNextDose ==
    /\ Screen = "completed"
    /\ ready
    /\ store' = [store EXCEPT !.dotd_next_at = Absent]
    /\ nextAt' = Null
    /\ showCompleted' = FALSE
    /\ idx' = 0
    /\ UNCHANGED <<now, tz, len, drug, answers, showResults, timerOn, secondsLeftBy,
                   streak, nTicks, nToggles>>
    /\ Effects

\* the countdown interval fires: setTick re-renders the Completed screen
countdownTick ==
    /\ interval
    /\ UNCHANGED <<now, tz, len, drug, store, idx, answers, showResults, showCompleted,
                   timerOn, secondsLeftBy, nextAt, streak, nTicks, nToggles>>
    /\ Effects

----------------------------------------------------------------------------
(* The wall clock *)

advanceClock ==
    /\ now + ClockStep <= MaxNow
    /\ now' = now + ClockStep
    /\ UNCHANGED <<tz, store, len, drug, ui, nTicks, nToggles>>

----------------------------------------------------------------------------
(* Specifications *)

Next ==
    \/ \E id \in Clickable(curr) : clickOption(id)
    \/ clearSelection
    \/ goNext
    \/ goBack
    \/ setTimerOn
    \/ timerFires
    \/ tryAgain
    \/ markReviewComplete
    \/ Reload
    \/ backToHome
    \/ startNextDose
    \/ countdownTick
    \/ advanceClock

Spec == Init /\ [][Next]_vars

\* the streak effect stops between its two setItem calls (the page is killed, or
\* the second setItem throws) and the page is opened again
goNextInterrupted ==
    LET st == StoreBetweenWrites(store, now)
        m == Mounted(st)
    IN  /\ Screen = "quiz"
        /\ idx + 1 = total
        /\ store.dotd_last # IsoDate(now)
        /\ StoredStreak(store).v < MaxStreak
        /\ store' = st
        /\ idx' = m.idx
        /\ answers' = m.answers
        /\ showResults' = m.showResults
        /\ showCompleted' = m.showCompleted
        /\ timerOn' = m.timerOn
        /\ secondsLeftBy' = m.secondsLeftBy
        /\ nextAt' = m.nextAt
        /\ streak' = m.streak
        /\ nTicks' = 0
        /\ nToggles' = 0
        /\ drug' = pickDrugForToday(now, tz, len)
        /\ UNCHANGED <<now, tz, len>>
        /\ Effects

NextCrash == Next \/ goNextInterrupted

SpecCrash == Init /\ [][NextCrash]_vars

\* the quiz and its Results screen alone, with the clock standing still
NextQuiz ==
    \/ \E id \in QuizClickable(curr) : clickQuizOption(id)
    \/ clearSelection
    \/ goNext
    \/ goBack
    \/ timerFires
    \/ tryAgain

SpecQuiz == Init /\ [][NextQuiz]_vars

\* the timers alone: the quiz is entered again on its first anchor after one
\* anchor has run down to its last seconds
InitTimer ==
    LET m == Mounted(EmptyStore)
    IN  /\ now = StartNow
        /\ tz \in TimeZones
        /\ store = EmptyStore
        /\ len = 1
        /\ drug = pickDrugForToday(now, tz, len)
        /\ \E a \in AnchorIds, v \in 0..MaxLeft :
               secondsLeftBy = [initialTimes EXCEPT ![a] = v]
        /\ idx = m.idx
        /\ answers = m.answers
        /\ showResults = m.showResults
        /\ showCompleted = m.showCompleted
        /\ timerOn = m.timerOn
        /\ nextAt = m.nextAt
        /\ streak = m.streak
        /\ timeout = TimerEffect(timerOn, showResults, showCompleted, secondsLeftBy, idx)
        /\ interval = CountdownEffect(showCompleted, nextAt)
        /\ ready = Ready(showCompleted, nextAt, now)
        /\ nTicks = 0
        /\ nToggles = 0

NextTimer ==
    \/ goNext
    \/ goBack
    \/ setTimerOn
    \/ timerFires
    \/ tryAgain
    \/ markReviewComplete
    \/ backToHome

SpecTimer == InitTimer /\ [][NextTimer]_vars

\* pickDrugForToday alone: called at any hour of the bounds, in any zone, on a
\* content list of any length, and called again an hour later
Pending == [t |-> "pending", v |-> 0]

InitPick ==
    /\ now \in (0 - MinBase)..MaxPick
    /\ tz \in PickZones
    /\ len \in 0..MaxLen
    /\ drug = Pending
    /\ store = EmptyStore
    /\ InitUi(store, now)
    /\ nTicks = 0
    /\ nToggles = 0

callPickDrugForToday ==
    /\ drug = Pending
    /\ drug' = pickDrugForToday(now, tz, len)
    /\ UNCHANGED <<now, tz, len, store, ui, nTicks, nToggles>>

pickAnHourLater ==
    /\ drug # Pending
    /\ now < MaxPick
    /\ now' = now + 1
    /\ drug' = pickDrugForToday(now', tz, len)
    /\ UNCHANGED <<tz, len, store, ui, nTicks, nToggles>>

NextPick == callPickDrugForToday \/ pickAnHourLater

SpecPick == InitPick /\ [][NextPick]_vars

\* the scorer alone: the quiz is walked through to Finish with one anchor
\* answered by any set of its options, clicked in the order of the options or
\* in the opposite order
Reverse(arr) == [i \in 1..Len(arr) |-> arr[Len(arr) + 1 - i]]

AnswerArrays(a) ==
    LET inOrder == {SelectSeq(Options(a), LAMBDA o : o \in S) :
                        S \in SUBSET NewSet(Options(a))}
    IN  IF AnchorType(a) = "single"
        THEN {arr \in inOrder : Len(arr) <= 1}
        ELSE inOrder \cup {Reverse(arr) : arr \in inOrder}

InitScore ==
    LET m == Mounted(EmptyStore)
    IN  /\ now = StartNow
        /\ tz \in TimeZones
        /\ store = EmptyStore
        /\ len = 1
        /\ drug = pickDrugForToday(now, tz, len)
        /\ \E a \in AnchorIds : \E arr \in AnswerArrays(a) :
               answers = [EmptyAnswers EXCEPT ![a] = arr]
        /\ idx = m.idx
        /\ showResults = m.showResults
        /\ showCompleted = m.showCompleted
        /\ timerOn = m.timerOn
        /\ secondsLeftBy = m.secondsLeftBy
        /\ nextAt = m.nextAt
        /\ streak = m.streak
        /\ timeout = TimerEffect(timerOn, showResults, showCompleted, secondsLeftBy, idx)
        /\ interval = CountdownEffect(showCompleted, nextAt)
        /\ ready = Ready(showCompleted, nextAt, now)
        /\ nTicks = 0
        /\ nToggles = 0

NextScore == goNext \/ goBack

SpecScore == InitScore /\ [][NextScore]_vars

\* the page opened on a store that something else has written to: a string that
\* is no number under dotd_next_at or dotd_streak, beside any dotd_last
Garbage == [t |-> "text", v |-> 1]

CorruptStores ==
    {st \in [dotd_next_at : {Absent, Garbage},
             dotd_streak : {Absent, Garbage},
             dotd_last : {Absent, IsoDate(StartNow - HoursPerDay), IsoDate(StartNow)}] :
        st.dotd_next_at = Garbage \/ st.dotd_streak = Garbage}

InitCorrupt ==
    /\ now = StartNow
    /\ tz \in TimeZones
    /\ store \in CorruptStores
    /\ len = 1
    /\ drug = pickDrugForToday(now, tz, len)
    /\ InitUi(store, now)
    /\ nTicks = 0
    /\ nToggles = 0

NextCorrupt ==
    \/ goNext
    \/ tryAgain
    \/ markReviewComplete
    \/ Reload
    \/ backToHome
    \/ startNextDose
    \/ countdownTick
    \/ advanceClock

SpecCorrupt == InitCorrupt /\ [][NextCorrupt]_vars

\* the gate with a clock that keeps advancing: the clock goes on past MaxNow
\* while an unlock time is ahead of it, a session is marked complete only up to
\* MaxNow, and the countdown interval keeps firing while it is pending
advanceClockToUnlock ==
    /\ \/ now + ClockStep <= MaxNow
       \/ (TruthyNum(nextAt) /\ now < nextAt.v)
    /\ now' = now + ClockStep
    /\ UNCHANGED <<tz, store, len, drug, ui, nTicks, nToggles>>

markReviewCompleteInTime ==
    /\ now <= MaxNow
    /\ markReviewComplete

NextLive ==
    \/ goNext
    \/ tryAgain
    \/ markReviewCompleteInTime
    \/ Reload
    \/ backToHome
    \/ startNextDose
    \/ countdownTick
    \/ advanceClockToUnlock

SpecLive ==
    /\ Init
    /\ [][NextLive]_vars
    /\ WF_vars(advanceClockToUnlock)
    /\ WF_vars(countdownTick)

\* next9amTs alone, applied to every base and zone of the bounds
InitNext9 ==
    /\ now \in 0..MaxBase
    /\ tz \in AllZones
    /\ store = EmptyStore
    /\ len = 1             \* the content list holds the one drug of the quiz
    /\ drug = pickDrugForToday(now, tz, len)
    /\ InitUi(store, now)
    /\ nTicks = 0
    /\ nToggles = 0

callNext9amTs ==
    /\ nextAt = Null
    /\ nextAt' = Num(next9amTs(now, tz))
    /\ UNCHANGED <<now, tz, len, drug, store, idx, answers, showResults, showCompleted,
                   timerOn, secondsLeftBy, streak, ready, timeout, interval,
                   nTicks, nToggles>>

NextNext9 == callNext9amTs

SpecNext9 == InitNext9 /\ [][NextNext9]_vars

----------------------------------------------------------------------------
(* Properties *)

\* hour of the local day at ts
LocalHour(ts, z) == (ts + Off(z, ts)) % HoursPerDay

\* C1: for every instant whose local time of day is before 09:00, next9amTs
\* returns 09:00 of the same local calendar day.
C1_Before9SameDay ==
    (nextAt # Null /\ LocalHour(now, tz) < NineAM) =>
        /\ nextAt.t = "num"
        /\ LocalHour(nextAt.v, tz) = NineAM
        /\ LocalDay(nextAt.v, tz) = LocalDay(now, tz)

C1_Witness ==
    /\ nextAt # Null
    /\ LocalHour(now, tz) = NineAM - 1
    /\ tz.off # 0

\* C2: for every instant whose local time of day is 09:00 or later, 09:00 sharp
\* included, next9amTs returns 09:00 of the following local calendar day, and
\* the result is always later than the instant.
C2_From9NextDay ==
    nextAt # Null =>
        /\ nextAt.t = "num"
        /\ nextAt.v > now
        /\ LocalHour(now, tz) >= NineAM =>
              /\ LocalHour(nextAt.v, tz) = NineAM
              /\ LocalDay(nextAt.v, tz) = LocalDay(now, tz) + 1

C2_Witness ==
    /\ nextAt # Null
    /\ LocalHour(now, tz) = NineAM
    /\ tz.off # 0


\* the gate is locked: the session was marked complete and the clock has not
\* reached unlockAt
Locked == showCompleted /\ nextAt.t = "num" /\ now < nextAt.v

\* the store holds an unlock time that the clock has not reached
PersistedLock == store.dotd_next_at.t = "numstr" /\ now < store.dotd_next_at.v

\* C3: while the gate is locked the "start next session" action is refused: the
\* button is rendered disabled, no step is the button's handler, the persisted
\* unlock time is not removed and nextAt is not cleared.
C3_StartRefusedWhileLocked ==
    [][Locked =>
          /\ ~ready
          /\ ~startNextDose
          /\ store'.dotd_next_at = store.dotd_next_at
          /\ nextAt' = nextAt]_vars

C3_Witness ==
    /\ Locked
    /\ ~ready
    /\ interval
    /\ now > StartNow
    /\ store.dotd_next_at = String(nextAt)

\* C4: a reload at a time before the persisted unlockAt leaves the gate locked:
\* the quiz screen is not shown after it.
C4_LockSurvivesReload ==
    [][(PersistedLock /\ Reload) => Screen' # "quiz"]_vars

\* C5: once the session is marked complete, no user action on the page returns
\* it to the quiz or to the results while the clock is before unlockAt.
C5_CompletedTerminal ==
    [][(Locked /\ ~Reload) => showCompleted']_vars

\* C6: "Try again" returns to the quiz at index 0 with every answer set empty
\* and every anchor's remaining seconds back at the full initial value.
C6_TryAgainResetsAll ==
    [][tryAgain =>
          /\ Screen' = "quiz"
          /\ idx' = 0
          /\ answers' = EmptyAnswers
          /\ secondsLeftBy' = initialTimes]_vars

\* a step that is the click on "Finish"
Finish == Screen = "quiz" /\ idx + 1 = total /\ goNext

C8_SameDayKeepsStreak ==
    [][store.dotd_last = IsoDate(now) =>
          /\ store'.dotd_streak = store.dotd_streak
          /\ store'.dotd_last = store.dotd_last]_vars

\* the results are up for the second time at the hour of the first mount: the
\* unlock time comes from a "mark review complete" after an earlier Finish
C8_Witness ==
    /\ now = StartNow
    /\ Screen = "results"
    /\ nextAt.t = "num"
    /\ store.dotd_last = IsoDate(now)
    /\ store.dotd_streak = NumStr(1)

\* C9: a completion recorded on a date other than lastCompletedDate stores
\* today's date, and stores the old streak plus 1 when lastCompletedDate is the
\* day before, and 1 otherwise (a longer gap, or no date stored).
C9_NewDayStreak ==
    [][(Screen = "quiz" /\ showResults' /\ store.dotd_last # IsoDate(now)) =>
          LET d == now \div HoursPerDay
              old == IF store.dotd_streak.t = "numstr" THEN store.dotd_streak.v ELSE 0
          IN  /\ store'.dotd_last = DateStr(d)
              /\ store'.dotd_streak =
                    NumStr(IF store.dotd_last = DateStr(d - 1) THEN old + 1 ELSE 1)]_vars

C9_Witness ==
    /\ Screen = "results"
    /\ store.dotd_streak = NumStr(2)
    /\ store.dotd_last = IsoDate(now)

\* C10: the streak count and the last-completed date change together: no step
\* leaves a new dotd_streak in the store beside a dotd_last that is not today.
C10_StreakAndDateTogether ==
    [][store'.dotd_streak # store.dotd_streak => store'.dotd_last = IsoDate(now)]_vars

----------------------------------------------------------------------------
(* Answers *)

\* the ids an answer array holds
Sel(arr) == {arr[i] : i \in 1..Len(arr)}

\* C11: a single-choice anchor never holds more than one selected id, and a
\* click on one of its options leaves exactly that option selected, whatever
\* was selected before (the same option included), the other anchors untouched.
C11_SingleHoldsOne ==
    /\ [](\A a \in AnchorIds : AnchorType(a) = "single" => Len(answers[a]) <= 1)
    /\ [][\A id \in QuizClickable(curr) :
            (AnchorType(curr) = "single" /\ toggle(id)) =>
                /\ answers'[curr] = <<id>>
                /\ \A a \in AnchorIds \ {curr} : answers'[a] = answers[a]]_vars

\* two clicks were made on the first anchor and the last option is the answer
C11_Witness ==
    /\ Screen = "quiz"
    /\ idx = 0
    /\ nToggles = 2
    /\ answers["class"] = <<"bb">>

\* C12: a click on an option of a multi-choice anchor flips the membership of
\* that option only (added when absent, removed when present), keeps every
\* other option and every other anchor as it was, and a second click on the
\* same option right after gives back the set of before the first click.
C12_MultiToggles ==
    [][\A id \in QuizClickable(curr) :
          (AnchorType(curr) = "multi" /\ toggle(id)) =>
              LET before == Sel(answers[curr])
                  after == Sel(answers'[curr])
                  again == Sel(Toggled(answers', curr, id)[curr])
              IN  /\ (id \in after) <=> (id \notin before)
                  /\ after \ {id} = before \ {id}
                  /\ again = before
                  /\ Len(answers'[curr]) = Cardinality(after)
                  /\ \A a \in AnchorIds \ {curr} : answers'[a] = answers[a]]_vars

\* two clicks on the second anchor left both of its clicked options selected
C12_Witness ==
    /\ Screen = "quiz"
    /\ nToggles = 2
    /\ Sel(answers["indications"]) = {"htn", "migraine"}

----------------------------------------------------------------------------
(* Navigation *)

\* C13: on the quiz screen a step that lowers idx lowers it by exactly one,
\* from an idx above 0, and changes no remaining time and no answer; a step
\* that raises idx raises it by exactly one and changes no remaining time and
\* no answer either.  Going back and then forward at once therefore restores
\* idx, the remaining times and the answers exactly.
C13_RetreatThenAdvance ==
    [][(Screen = "quiz" /\ Screen' = "quiz") =>
          /\ idx' < idx =>
                /\ idx > 0
                /\ idx' = idx - 1
                /\ idx' + 1 < total
                /\ UNCHANGED <<secondsLeftBy, answers, timerOn>>
          /\ idx' > idx =>
                /\ idx' = idx + 1
                /\ UNCHANGED <<secondsLeftBy, answers, timerOn>>]_vars

\* back on the first anchor with an answer and a used second on the second one
C13_Witness ==
    /\ Screen = "quiz"
    /\ idx = 0
    /\ secondsLeftBy["indications"] = FullSeconds - 1
    /\ answers["indications"] # <<>>

\* C14: idx is always an index of an anchor; Next on an anchor that is not
\* the last one raises idx by one and stays on the quiz; Finish on the last
\* anchor leaves idx as it is and brings up the Results screen.
C14_AdvanceInRange ==
    /\ [](idx \in 0..(total - 1))
    /\ [][goNext =>
            IF idx + 1 < total
            THEN idx' = idx + 1 /\ ~showResults'
            ELSE idx' = idx /\ showResults']_vars
    /\ [][(~showResults /\ showResults') => (idx = total - 1 /\ idx' = idx)]_vars

\* the Results screen is up and idx is still the index of the last anchor
C14_Witness ==
    /\ Screen = "results"
    /\ idx = total - 1

----------------------------------------------------------------------------
(* Timers *)

\* C15: the remaining seconds change only on the quiz screen with the timer
\* on, only for the anchor that is the current one at that moment, and by
\* exactly one; a pending timeout always belongs to the current anchor of the
\* quiz screen, so none is left to fire after a move to another anchor or
\* after the quiz screen is left.
C15_TickOnlyActiveAnchor ==
    /\ [](timeout # "none" => (Screen = "quiz" /\ timerOn /\ timeout = curr))
    /\ [][secondsLeftBy' # secondsLeftBy =>
            /\ Screen = "quiz"
            /\ timerOn
            /\ secondsLeftBy' = [secondsLeftBy EXCEPT ![curr] = @ - 1]
            /\ UNCHANGED <<idx, showResults, showCompleted>>]_vars

\* the last anchor lost a second and the Results screen is up with no timeout
C15_Witness ==
    /\ Screen = "results"
    /\ secondsLeftBy[Anchors[total]] = FullSeconds - 1
    /\ timeout = "none"

\* C16: the remaining seconds of every anchor stay within 0..35, and while
\* the current anchor has 0 seconds left no timeout is pending.
C16_SecondsInRange ==
    /\ \A a \in AnchorIds : secondsLeftBy[a] \in 0..FullSeconds
    /\ secondsLeftBy[curr] = 0 => timeout = "none"

\* the timer is on and a tick has brought the current anchor from 1 to 0
C16_Witness ==
    /\ Screen = "quiz"
    /\ timerOn
    /\ nTicks = 1
    /\ secondsLeftBy[curr] = 0
    /\ \A a \in AnchorIds \ {curr} : secondsLeftBy[a] = FullSeconds

----------------------------------------------------------------------------
(* The drug of the day *)

\* C17: for a content list of N >= 1 items the picked index is
\* ((days mod N) + N) mod N, with mod the mathematical remainder, and lies in
\* 0..N-1, for negative numbers of days too.
C17_IndexInRange ==
    (drug # Pending /\ len >= 1) =>
        /\ drug = Item(((days(now, tz) % len) + len) % len)
        /\ drug.v \in 0..(len - 1)

\* one window before the first one, three items: the last item is picked
C17_Witness ==
    /\ drug = Item(2)
    /\ len = 3
    /\ days(now, tz) = 0 - 1

\* the local day at whose 09:00 the day window of ts starts
Window(ts, z) ==
    IF LocalHour(ts, z) >= NineAM THEN LocalDay(ts, z) ELSE LocalDay(ts, z) - 1

\* C18: two picks in the same day window (09:00 local inclusive to 09:00 of
\* the next day exclusive) give the same item, and picks in two consecutive
\* windows give indices that differ by exactly 1 modulo N.
C18_SameWindowSameItem ==
    [][(drug.t = "item" /\ drug'.t = "item") =>
          /\ Window(now', tz) = Window(now, tz) => drug' = drug
          /\ Window(now', tz) = Window(now, tz) + 1 =>
                drug'.v = (drug.v + 1) % len]_vars

\* C19: an instant before 09:00 belongs to the window that started at 09:00
\* of the previous day, and the number of days is the count of whole 24 h
\* from the 09:00 of START_DATE_ISO to the start of the window; with three
\* items, 10:00 two days after START_DATE_ISO gives days 2 and index 2, and
\* 08:00 of that day gives days 1 and index 1.
C19_Before9PreviousWindow ==
    drug # Pending =>
        /\ days(now, tz) =
             (LocalTs(Window(now, tz), NineAM, tz) - LocalTs(StartDay, NineAM, tz))
                \div HoursPerDay
        /\ (len = 3 /\ now = LocalTs(StartDay + 2, 10, tz)) =>
              (days(now, tz) = 2 /\ drug = Item(2))
        /\ (len = 3 /\ now = LocalTs(StartDay + 2, 8, tz)) =>
              (days(now, tz) = 1 /\ drug = Item(1))

\* C20: on an empty content list the pick ends in an explicit error, never in
\* an item or an undefined item.
C20_EmptyContentFails ==
    (drug # Pending /\ len = 0) => drug.t = "error"

----------------------------------------------------------------------------
(* Scorer *)

\* C21: on the Results screen an anchor is reported correct exactly when the
\* set of its selected ids equals the set of its correct ids, whatever the
\* order of the clicks; missed holds exactly the correct ids not selected and
\* wrong exactly the selected ids that are not correct, so the anchor is
\* correct exactly when missed and wrong are both empty.
C21_CorrectIffSetsEqual ==
    showResults =>
        \A a \in AnchorIds :
            LET r == results[a]
                sel == Sel(answers[a])
                cor == Sel(Correct(a))
            IN  /\ r.correct <=> (sel = cor)
                /\ Sel(r.missed) = cor \ sel
                /\ Sel(r.wrong) = sel \ cor
                /\ r.correct <=> (r.missed = <<>> /\ r.wrong = <<>>)

\* the four right indications were clicked from the last to the first and the
\* anchor is scored correct, while an unanswered anchor is not
C21_Witness ==
    /\ showResults
    /\ answers["indications"] = <<"ckd", "postmi", "hfrEF", "htn">>
    /\ results["indications"].correct
    /\ ~results["class"].correct

----------------------------------------------------------------------------
(* Persisted values that are no numbers *)

\* C22: a persisted value that is no number reads as unset: the streak shown
\* is a number, "NaN" is never written to dotd_streak (the next completion
\* stores a number), and a nextAt that is no number leaves the gate open.
C22_CorruptReadsAsUnset ==
    /\ streak.t = "num"
    /\ store.dotd_streak # NaNStr
    /\ nextAt.t = "nan" => ~showCompleted

----------------------------------------------------------------------------
(* Scheduled callbacks *)

\* C23: a question timeout is pending only on the quiz screen with the timer
\* enabled, a countdown interval only on the Completed screen, and a step
\* that leaves the quiz screen or the Completed screen leaves none of its
\* callbacks pending.
C23_NoCallbackOutlivesScreen ==
    /\ [](timeout # "none" => (Screen = "quiz" /\ timerOn))
    /\ [](interval => Screen = "completed")
    /\ [][(Screen = "quiz" /\ Screen' # "quiz") => timeout' = "none"]_vars
    /\ [][(Screen = "completed" /\ Screen' # "completed") => ~interval']_vars

\* the quiz is shown again while the unlock time is still set: the interval is
\* gone and the timeout of the first anchor is pending
C23_Witness ==
    /\ Screen = "quiz"
    /\ TruthyNum(nextAt)
    /\ ~interval
    /\ nTicks = 1
    /\ timeout = "class"

----------------------------------------------------------------------------
(* What a selection and "Clear selection" leave alone *)

\* C24: "Clear selection" empties the answers of the current anchor and a
\* click on an option changes the answers of the current anchor only: both
\* leave the answers of every other anchor, idx and the remaining seconds of
\* every anchor as they were.
C24_OnlyCurrentAnchorChanges ==
    /\ [][clearSelection => answers'[curr] = <<>>]_vars
    /\ [][(clearSelection \/ \E id \in QuizClickable(curr) : toggle(id)) =>
            /\ \A a \in AnchorIds \ {curr} : answers'[a] = answers[a]
            /\ UNCHANGED <<idx, secondsLeftBy>>]_vars
    /\ [][(Screen = "quiz" /\ Screen' = "quiz" /\ answers' # answers) =>
            /\ \A a \in AnchorIds \ {curr} : answers'[a] = answers[a]
            /\ UNCHANGED <<idx, secondsLeftBy>>]_vars

\* both clicks are used, the first anchor is answered, the second one is the
\* current one with a second gone and its answers empty
C24_Witness ==
    /\ Screen = "quiz"
    /\ idx = 1
    /\ nToggles = 2
    /\ answers["class"] = <<"ace">>
    /\ answers["indications"] = <<>>
    /\ secondsLeftBy["indications"] = FullSeconds - 1

----------------------------------------------------------------------------
(* The unlock time in memory and in the store *)

\* C25: the step that brings up the Completed screen at time t sets nextAt
\* and dotd_next_at to the same value, the first 09:00 local strictly after t;
\* and whenever the Completed screen is shown nextAt is a number and
\* dotd_next_at holds the same number.
C25_NextAtMatchesStore ==
    /\ [](showCompleted =>
            (nextAt.t = "num" /\ store.dotd_next_at = NumStr(nextAt.v)))
    /\ [][(~showCompleted /\ showCompleted') =>
            /\ nextAt'.t = "num"
            /\ store'.dotd_next_at = NumStr(nextAt'.v)
            /\ nextAt'.v > now
            /\ LocalHour(nextAt'.v, tz) = NineAM
            /\ \A h \in (now + 1)..(nextAt'.v - 1) : LocalHour(h, tz) # NineAM]_vars

\* the Completed screen is shown some hours after the first mount, in a zone
\* away from UTC
C25_Witness ==
    /\ showCompleted
    /\ now > StartNow
    /\ tz.off # 0
    /\ store.dotd_next_at = NumStr(nextAt.v)

----------------------------------------------------------------------------
(* The gate opens *)

\* C26: once the gate is locked, with the clock advancing the clock reaches
\* unlockAt and the Completed screen reports ready, which enables "Start next
\* dose"; ready stays until the Completed screen is left, and the handler of
\* "Start next dose" removes dotd_next_at and sets nextAt to null.
C26_LockedLeadsToReady ==
    /\ Locked ~> (showCompleted /\ ready /\ now >= nextAt.v)
    /\ [][(showCompleted /\ ready /\ showCompleted') => ready']_vars
    /\ [][startNextDose => (store'.dotd_next_at = Absent /\ nextAt' = Null)]_vars

\* C27: after "Start next dose" is accepted the quiz is in its initial state:
\* the quiz screen at index 0, the Results screen not shown, the answers of
\* every anchor empty and the remaining seconds of every anchor full.
C27_StartNextIsFresh ==
    [][startNextDose =>
          /\ Screen' = "quiz"
          /\ ~showResults'
          /\ idx' = 0
          /\ answers' = EmptyAnswers
          /\ secondsLeftBy' = initialTimes]_vars

====
